---- MODULE Spec2Model ----
(***************************************************************************)
(* A model of update.py, the script that prepares the modules of a         *)
(* collection for 1.0.0: for every plugin file it normalises               *)
(* ANSIBLE_METADATA, edits DOCUMENTATION, derives the short description,   *)
(* qualifies the module name in EXAMPLES, writes the file and runs black.  *)
(*                                                                         *)
(* Python strings are sequences of one-character strings.  A YAML text is  *)
(* a record [lines, nl]: its lines and whether it ends with a newline.     *)
(***************************************************************************)
EXTENDS Integers, Sequences, FiniteSets, TLC

VARIABLES
    pc,           \* position of the running function
    ast_obj,      \* the syntax tree being transformed (ast_obj.body)
    module_name,  \* the module name in use
    collection,   \* the --collection argument
    hist,         \* the trees seen so far by the pass under study
    disk,         \* file name -> content on disk
    orig,         \* file name -> content on disk before the batch
    listing,      \* the file names in the order os.listdir returns them
    idx,          \* position of process() in the listing
    passes,       \* the passes that have returned for the current file
    events        \* the writes and formatter runs so far, in order

vars == <<pc, ast_obj, module_name, collection, hist,
          disk, orig, listing, idx, passes, events>>

----------------------------------------------------------------------------
(* Bounds *)

MaxBody == 3       \* top-level statements of a tree in the per-pass runs
MaxFiles == 2      \* files of a batch
MaxDocKeys == 3    \* top-level keys of a DOCUMENTATION text
MaxComment == 3    \* characters of a comment line after its "#"

----------------------------------------------------------------------------
(* Python str *)

UPPERCASE == <<"A","B","C","D","E","F","G","H","I","J","K","L","M",
               "N","O","P","Q","R","S","T","U","V","W","X","Y","Z">>
LOWERCASE == <<"a","b","c","d","e","f","g","h","i","j","k","l","m",
               "n","o","p","q","r","s","t","u","v","w","x","y","z">>

char_lower(c) ==
    IF \E i \in 1..26 : UPPERCASE[i] = c
    THEN LOWERCASE[CHOOSE i \in 1..26 : UPPERCASE[i] = c]
    ELSE c

char_upper(c) ==
    IF \E i \in 1..26 : LOWERCASE[i] = c
    THEN UPPERCASE[CHOOSE i \in 1..26 : LOWERCASE[i] = c]
    ELSE c

lower(s) == [i \in 1..Len(s) |-> char_lower(s[i])]
upper(s) == [i \in 1..Len(s) |-> char_upper(s[i])]

startswith(s, p) == Len(p) <= Len(s) /\ SubSeq(s, 1, Len(p)) = p

\* the "in" operator on two strings
contains(s, p) ==
    \E i \in 1..(Len(s) - Len(p) + 1) : SubSeq(s, i, i + Len(p) - 1) = p

\* str.replace(old, new) for a non-empty old: leftmost occurrences first,
\* never overlapping
RECURSIVE replace(_, _, _)
replace(s, old, new) ==
    IF Len(s) < Len(old) THEN s
    ELSE IF SubSeq(s, 1, Len(old)) = old
         THEN new \o replace(SubSeq(s, Len(old) + 1, Len(s)), old, new)
         ELSE <<s[1]>> \o replace(Tail(s), old, new)

\* str.split(sep) for a one-character sep: "" splits to [""]
RECURSIVE split(_, _)
split(s, sep) ==
    IF \A i \in 1..Len(s) : s[i] # sep THEN <<s>>
    ELSE LET i == CHOOSE j \in 1..Len(s) :
                      s[j] = sep /\ \A k \in 1..(j - 1) : s[k] # sep
         IN  <<SubSeq(s, 1, i - 1)>> \o split(SubSeq(s, i + 1, Len(s)), sep)

\* the positions of a list that pass a test, in order: what a list
\* comprehension with an "if" keeps
RECURSIVE SelectFrom(_, _)
SelectFrom(flags, i) ==
    IF i > Len(flags) THEN <<>>
    ELSE IF flags[i] THEN <<i>> \o SelectFrom(flags, i + 1)
    ELSE SelectFrom(flags, i + 1)

SelectIdx(flags) == SelectFrom(flags, 1)

----------------------------------------------------------------------------
(* Names and literals of the script *)

S_DOCUMENTATION == <<"D","O","C","U","M","E","N","T","A","T","I","O","N">>
S_ANSIBLE_METADATA ==
    <<"A","N","S","I","B","L","E","_","M","E","T","A","D","A","T","A">>
S_EXAMPLES == <<"E","X","A","M","P","L","E","S">>
S_RETURN == <<"R","E","T","U","R","N">>

S_module == <<"m","o","d","u","l","e">>
S_description == <<"d","e","s","c","r","i","p","t","i","o","n">>
S_short_description ==
    <<"s","h","o","r","t","_">> \o S_description
S_version_added == <<"v","e","r","s","i","o","n","_","a","d","d","e","d">>
S_deprecated == <<"d","e","p","r","e","c","a","t","e","d">>
S_metadata_version ==
    <<"m","e","t","a","d","a","t","a","_","v","e","r","s","i","o","n">>
S_supported_by == <<"s","u","p","p","o","r","t","e","d","_","b","y">>
S_1_1 == <<"1",".","1">>
S_Ansible == <<"A","n","s","i","b","l","e">>
S_1_0_0 == <<"1",".","0",".","0">>
S_after == <<"a","f","t","e","r">>
S_before == <<"b","e","f","o","r","e">>
S_commands == <<"c","o","m","m","a","n","d","s">>
S_global == <<"g","l","o","b","a","l">>
S_resource_module ==
    <<" ","r","e","s","o","u","r","c","e"," ","m","o","d","u","l","e">>
S_deprecated_prefix == <<"(">> \o S_deprecated \o <<")">>

----------------------------------------------------------------------------
(* Values of the syntax tree: an ast.Dict (keys, values) or an             *)
(* ast.Constant holding a YAML text (lines, nl).                           *)

Dict(keys, values) ==
    [node |-> "Dict", keys |-> keys, values |-> values,
     lines |-> <<>>, nl |-> FALSE]

Constant(lines, nl) ==
    [node |-> "Constant", keys |-> <<>>, values |-> <<>>,
     lines |-> lines, nl |-> nl]

----------------------------------------------------------------------------
(* YAML texts.  A line is an entry line or a comment line:                 *)
(*   entry:   ind spaces, "- " when dash, key, ":" and, when val is not    *)
(*            empty, " " and val (an empty val is YAML null or the parent  *)
(*            of the deeper lines that follow);                            *)
(*   comment: ind spaces and val, which starts with "#"; owner says which  *)
(*            node the round-trip loader hangs the comment on: "task" for  *)
(*            a key of a task mapping, "doc" for any other node.           *)

Entry(ind, dash, key, val) ==
    [comment |-> FALSE, ind |-> ind, dash |-> dash, key |-> key,
     val |-> val, owner |-> "doc"]

Comment(ind, text, owner) ==
    [comment |-> TRUE, ind |-> ind, dash |-> FALSE, key |-> <<>>,
     val |-> text, owner |-> owner]

spaces(n) == [i \in 1..n |-> " "]

\* the characters of a line, as splitlines() returns them
render(line) ==
    spaces(line.ind) \o
    (IF line.comment THEN line.val
     ELSE (IF line.dash THEN <<"-", " ">> ELSE <<>>) \o line.key \o <<":">>
          \o (IF line.val = <<>> THEN <<>> ELSE <<" ">> \o line.val))

S_unclosed == <<"[">>      \* a flow sequence that is never closed

IsEntry(line) == ~line.comment
TopIdx(lines) ==
    SelectIdx([i \in 1..Len(lines) |-> IsEntry(lines[i]) /\ lines[i].ind = 0])

\* The keys of the task mappings of a sequence are the entry lines at depth
\* 0 ("- key:") and 2 ("  key:"); deeper lines belong to the value of the
\* key above.
IsTaskKey(line) == IsEntry(line) /\ line.ind <= 2

\* what the text holds: nothing (load returns None), a mapping, a sequence
IsNone(lines) == \A i \in 1..Len(lines) : ~IsEntry(lines[i])
IsMap(lines) ==
    /\ ~IsNone(lines)
    /\ \A i \in 1..Len(lines) :
           (IsEntry(lines[i]) /\ lines[i].ind = 0) => ~lines[i].dash
IsSeq(lines) ==
    /\ ~IsNone(lines)
    /\ \A i \in 1..Len(lines) :
           (IsEntry(lines[i]) /\ lines[i].ind = 0) => lines[i].dash

\* ruamel.yaml.load(text, RoundTripLoader) returns: the scanner accepts the
\* text and no mapping has a key twice
Loads(lines) ==
    /\ \A i \in 1..Len(lines) : IsEntry(lines[i]) => lines[i].val # S_unclosed
    /\ \A i \in 1..Len(lines) :
           (IsEntry(lines[i]) /\ \A j \in 1..(i - 1) : ~IsEntry(lines[j]))
               => lines[i].ind = 0
    /\ IsNone(lines) \/ IsMap(lines) \/ IsSeq(lines)
    /\ IsMap(lines) =>
           LET top == TopIdx(lines)
           IN  \A i, j \in 1..Len(top) :
                   lines[top[i]].key = lines[top[j]].key => i = j
    /\ IsSeq(lines) =>
           ~ \E i, j \in 1..Len(lines) :
                 /\ i < j /\ IsTaskKey(lines[i]) /\ IsTaskKey(lines[j])
                 /\ lines[i].key = lines[j].key
                 /\ \A k \in (i + 1)..j : ~lines[k].dash

LoadsMap(lines) == Loads(lines) /\ IsMap(lines)
LoadsSeq(lines) == Loads(lines) /\ IsSeq(lines)

\* The CommentedMap of a text: its top-level entries in order, each with
\* the deeper lines below it.
load(lines) ==
    LET top == TopIdx(lines)
    IN  [k \in 1..Len(top) |->
            [key |-> lines[top[k]].key,
             val |-> lines[top[k]].val,
             sub |-> SubSeq(lines, top[k] + 1,
                            IF k = Len(top) THEN Len(lines)
                            ELSE top[k + 1] - 1)]]

\* ruamel.yaml.dump(doc, None, RoundTripDumper): the text ends with a newline
RECURSIVE dump_lines(_)
dump_lines(doc) ==
    IF doc = <<>> THEN <<>>
    ELSE <<Entry(0, FALSE, doc[1].key, doc[1].val)>> \o doc[1].sub
         \o dump_lines(Tail(doc))

dump(doc) == Constant(dump_lines(doc), TRUE)

keys(doc) == [k \in 1..Len(doc) |-> doc[k].key]
HasKey(doc, key) == \E k \in 1..Len(doc) : doc[k].key = key
Get(doc, key) == doc[CHOOSE k \in 1..Len(doc) : doc[k].key = key].val

\* CommentedMap.pop(key, None)
pop(doc, key) ==
    LET keep == SelectIdx([k \in 1..Len(doc) |-> doc[k].key # key])
    IN  [k \in 1..Len(keep) |-> doc[keep[k]]]

\* CommentedMap.insert(pos, key, value) for a key that is not in the map;
\* pos counts from 0
insert(doc, pos, key, value) ==
    SubSeq(doc, 1, pos) \o <<[key |-> key, val |-> value, sub |-> <<>>]>>
    \o SubSeq(doc, pos + 1, Len(doc))

\* doc[key] = value for a key that is in the map
setitem(doc, key, value) ==
    [k \in 1..Len(doc) |->
        IF doc[k].key = key THEN [doc[k] EXCEPT !.val = value] ELSE doc[k]]

\* "\n".join(lines): no newline at the end
join(lines) == Constant(lines, FALSE)

----------------------------------------------------------------------------
(* The syntax tree: ast_obj.body is a sequence of statements.  An Assign   *)
(* has one Name target and a value; any other statement has no targets.    *)

Assign(id, value) == [targets |-> TRUE, id |-> id, value |-> value]
Other == [targets |-> FALSE, id |-> <<>>, value |-> Constant(<<>>, FALSE)]

\* the indices of the statements find_assigment_in_ast returns, in order
find_assigment_in_ast(name, body) ==
    SelectIdx([i \in 1..Len(body) |-> body[i].targets /\ body[i].id = name])

SetValue(body, i, value) ==
    [k \in 1..Len(body) |->
        IF k = i THEN [body[k] EXCEPT !.value = value] ELSE body[k]]

\* What a pass returns: the tree it leaves and whether it raised.
Return(body) == [body |-> body, raised |-> FALSE]
Raise(body) == [body |-> body, raised |-> TRUE]

----------------------------------------------------------------------------
(* update_metdata *)

META == Dict(<<S_metadata_version, S_supported_by>>, <<S_1_1, S_Ansible>>)

\* a slip: the pass gives up only when there is no match at all
update_metdata_first_match(body) ==
    LET bodypart == find_assigment_in_ast(S_ANSIBLE_METADATA, body)
    IN  IF Len(bodypart) = 0 THEN Return(body)
        ELSE Return(SetValue(body, bodypart[1], META))

update_metdata(body) ==
    LET bodypart == find_assigment_in_ast(S_ANSIBLE_METADATA, body)
    IN  IF Len(bodypart) # 1 THEN Return(body)
        ELSE Return(SetValue(body, bodypart[1], META))

----------------------------------------------------------------------------
(* update_documentation *)

\* re.match(r"^\s+version_added\:\s.*$", l) on the characters of a line
regex_match(l) ==
    \E n \in 1..Len(l) :
        /\ \A i \in 1..n : l[i] = " "
        /\ startswith(SubSeq(l, n + 1, Len(l)), S_version_added \o <<":">>)
        /\ Len(l) > n + Len(S_version_added) + 1
        /\ l[n + Len(S_version_added) + 2] = " "

update_documentation(body) ==
    LET bodypart == find_assigment_in_ast(S_DOCUMENTATION, body)
        text == body[bodypart[1]].value.lines
        documentation == pop(load(text), S_version_added)
        desc_idx == SelectIdx([k \in 1..Len(documentation) |->
                                  documentation[k].key = S_description])
        \* desc_idx holds positions counted from 1: insert after that entry
        repl == dump(insert(documentation, desc_idx[1],
                            S_version_added, S_1_0_0))
        example_lines ==
            LET keep == SelectIdx([i \in 1..Len(repl.lines) |->
                                      ~regex_match(render(repl.lines[i]))])
            IN  [i \in 1..Len(keep) |-> repl.lines[keep[i]]]
    IN  IF Len(bodypart) # 1 THEN Return(body)
        ELSE IF ~LoadsMap(text) THEN Raise(body)
        ELSE IF desc_idx = <<>> THEN Raise(body)
        ELSE Return(SetValue(body, bodypart[1], join(example_lines)))

----------------------------------------------------------------------------
(* update_examples *)

\* for idx, task in enumerate(example): example[idx] = CommentedMap([...]),
\* then dump.  A key equal to module_name is renamed; of two equal keys the
\* first keeps its place and takes the value of the last; the comments that
\* hang on the replaced mappings are gone.
rebuild(lines, name, full_module_name) ==
    LET T == SelectIdx([i \in 1..Len(lines) |-> IsTaskKey(lines[i])])
        n == Len(T)
        newkey(k) == IF lines[T[k]].key = name THEN full_module_name
                     ELSE lines[T[k]].key
        sub(k) == SubSeq(lines, T[k] + 1,
                         IF k = n THEN Len(lines) ELSE T[k + 1] - 1)
        task(k) == Cardinality({j \in 1..k : lines[T[j]].dash})
        same(j, k) == task(j) = task(k) /\ newkey(j) = newkey(k)
        last(k) == CHOOSE j \in k..n :
                       same(j, k) /\ \A m \in (j + 1)..n : ~same(m, k)
        kept(lns) ==
            LET keep == SelectIdx([i \in 1..Len(lns) |->
                            ~(lns[i].comment /\ lns[i].owner = "task")])
            IN  [i \in 1..Len(keep) |-> lns[keep[i]]]
        RECURSIVE out(_)
        out(k) ==
            IF k > n THEN <<>>
            ELSE IF \E j \in 1..(k - 1) : same(j, k) THEN out(k + 1)
            ELSE <<Entry(lines[T[k]].ind, lines[T[k]].dash, newkey(k),
                         lines[T[last(k)]].val)>>
                 \o kept(sub(last(k))) \o out(k + 1)
    IN  SubSeq(lines, 1, T[1] - 1) \o out(1)

\* a slip: a comment line is rewritten although it already holds the
\* qualified name
update_examples_unguarded(body, name, coll) ==
    LET bodypart == find_assigment_in_ast(S_EXAMPLES, body)
        full_module_name == coll \o <<".">> \o name
        text == body[bodypart[1]].value.lines
        repl == Constant(rebuild(text, name, full_module_name), TRUE)
        example_lines ==
            [i \in 1..Len(repl.lines) |->
                LET line == render(repl.lines[i])
                IN  IF /\ startswith(line, <<"#">>)
                       /\ contains(line, name)
                       /\ name # <<>>
                    THEN Comment(0, replace(line, name, full_module_name),
                                 repl.lines[i].owner)
                    ELSE repl.lines[i]]
    IN  IF Len(bodypart) # 1 THEN Return(body)
        ELSE IF ~LoadsSeq(text) THEN Raise(body)
        ELSE Return(SetValue(body, bodypart[1], join(example_lines)))

update_examples(body, name, coll) ==
    LET bodypart == find_assigment_in_ast(S_EXAMPLES, body)
        full_module_name == coll \o <<".">> \o name
        text == body[bodypart[1]].value.lines
        repl == Constant(rebuild(text, name, full_module_name), TRUE)
        example_lines ==
            [i \in 1..Len(repl.lines) |->
                LET line == render(repl.lines[i])
                IN  IF /\ startswith(line, <<"#">>)
                       /\ contains(line, name)
                       /\ name # <<>>
                       /\ ~contains(line, full_module_name)
                    THEN Comment(0, replace(line, name, full_module_name),
                                 repl.lines[i].owner)
                    ELSE repl.lines[i]]
    IN  IF Len(bodypart) # 1 THEN Return(body)
        ELSE IF ~LoadsSeq(text) THEN Raise(body)
        ELSE Return(SetValue(body, bodypart[1], join(example_lines)))

----------------------------------------------------------------------------
(* update_short_description *)

SPECIALS ==
    << <<(<<"o","s","p","f","v","2">>), (<<"O","S","P","F","v","2">>)>>,
       <<(<<"i","n","t","e","r","f","a","c","e","s">>),
         (<<"I","n","t","e","r","f","a","c","e","s">>)>>,
       <<(<<"s","t","a","t","i","c">>), (<<"S","t","a","t","i","c">>)>> >>

InSpecials(token) == \E i \in 1..Len(SPECIALS) : SPECIALS[i][1] = token
Special(token) ==
    SPECIALS[CHOOSE i \in 1..Len(SPECIALS) : SPECIALS[i][1] = token][2]

rm_rets == <<S_after, S_before, S_commands>>

\* lines 187-188: all of after, before and commands are keys of RETURN
is_resource_module(ret_section) ==
    LET match == SelectIdx([i \in 1..Len(rm_rets) |->
                               HasKey(ret_section, rm_rets[i])])
    IN  Len(match) = Len(rm_rets)

\* a slip: the table of special tokens is not consulted
resource_token_upper(name) ==
    upper(lower(split(name, "_")[2]))

\* lines 190-196: the resource token, mapped or upper-cased
resource_token(name) ==
    LET parts == split(name, "_")
        resource == lower(parts[2])
    IN  IF InSpecials(resource) THEN Special(resource) ELSE upper(resource)

\* a slip: the final "s" is cut off
singular_case_cut(resource) ==
    IF lower(resource)[Len(resource)] = "s"
    THEN SubSeq(resource, 1, Len(resource) - 1)
    ELSE resource

\* lines 197-200: a final "s" of either case is lower-cased
singular_case(resource) ==
    IF lower(resource)[Len(resource)] = "s"
    THEN SubSeq(resource, 1, Len(resource) - 1)
         \o <<char_lower(resource[Len(resource)])>>
    ELSE resource

\* lines 190-203, for a name with a non-empty second component
resource_description(name) ==
    LET parts == split(name, "_")
        resource == singular_case(resource_token(name))
    IN  (IF Len(parts) > 2 /\ parts[3] # S_global
         THEN resource \o <<" ">> \o parts[3]
         ELSE resource) \o S_resource_module

\* a slip: the prefix that is already there is not looked for
needs_prefix_unguarded(doc_section, short_description) ==
    HasKey(doc_section, S_deprecated)

\* line 205: the module is deprecated and not marked so yet
needs_prefix(doc_section, short_description) ==
    /\ HasKey(doc_section, S_deprecated)
    /\ ~startswith(short_description, S_deprecated_prefix)

\* a slip: the documentation is re-encoded every time
changed_always(short_description, original) == TRUE

\* line 209: "Change short if necessary"
changed(short_description, original) == short_description # original

update_short_description(body, name) ==
    LET retrn == find_assigment_in_ast(S_RETURN, body)
        documentation == find_assigment_in_ast(S_DOCUMENTATION, body)
        ret_text == body[retrn[1]].value.lines
        doc_text == body[documentation[1]].value.lines
        ret_section == load(ret_text)
        doc_section == load(doc_text)
        original == Get(doc_section, S_short_description)
        resource == is_resource_module(ret_section)
        parts == split(name, "_")
        derived == IF resource THEN resource_description(name) ELSE original
        short_description ==
            IF needs_prefix(doc_section, derived)
            THEN S_deprecated_prefix \o <<" ">> \o derived
            ELSE derived
    IN  IF Len(retrn) # 1 THEN Return(body)
        ELSE IF ~Loads(ret_text) THEN Raise(body)
        ELSE IF Len(documentation) # 1 THEN Return(body)
        ELSE IF ~LoadsMap(doc_text) THEN Raise(body)
        ELSE IF ~HasKey(doc_section, S_short_description) THEN Raise(body)
        \* ret_section.keys() of None or of a list
        ELSE IF ~IsMap(ret_text) THEN Raise(body)
        \* parts[1] of a name without "_", [-1] of an empty token
        ELSE IF resource /\ (Len(parts) < 2 \/ parts[2] = <<>>)
             THEN Raise(body)
        \* None.startswith: the short description is null
        ELSE IF ~resource /\ HasKey(doc_section, S_deprecated)
                /\ original = <<>>
             THEN Raise(body)
        ELSE IF changed(short_description, original)
             THEN Return(SetValue(body, documentation[1],
                     dump(setitem(doc_section, S_short_description,
                                  short_description))))
        ELSE Return(body)

----------------------------------------------------------------------------
(* Running one pass on a tree.  The per-pass specifications start from a   *)
(* tree drawn from a bounded set and call the pass; hist records the tree  *)
(* before and after every call.                                            *)

SeqsUpTo(S, n) == UNION {[1..m -> S] : m \in 0..n}

Idle ==
    /\ disk = <<>> /\ orig = <<>> /\ listing = <<>> /\ idx = 0
    /\ passes = {} /\ events = <<>>

Call(result, returned) ==
    /\ ast_obj' = result.body
    /\ hist' = Append(hist, result.body)
    /\ pc' = IF result.raised THEN "raised" ELSE returned
    /\ UNCHANGED <<module_name, collection, disk, orig, listing, idx,
                   passes, events>>

----------------------------------------------------------------------------
(* update_metdata on its own *)

S_preview == <<"p","r","e","v","i","e","w">>
S_status == <<"s","t","a","t","u","s">>

MetaStatements ==
    { Other,
      Assign(S_ANSIBLE_METADATA, Dict(<<>>, <<>>)),
      Assign(S_ANSIBLE_METADATA,
             Dict(<<S_metadata_version, S_status, S_supported_by>>,
                  <<S_1_1, S_preview, <<"n","e","t","w","o","r","k">> >>)),
      Assign(S_ANSIBLE_METADATA, META),
      Assign(S_ANSIBLE_METADATA, Constant(<<>>, FALSE)),
      Assign(S_RETURN, Dict(<<>>, <<>>)) }

InitMeta ==
    /\ pc = "metadata"
    /\ ast_obj \in SeqsUpTo(MetaStatements, MaxBody)
    /\ hist = <<ast_obj>>
    /\ module_name = <<>> /\ collection = <<>>
    /\ Idle

RunMetadata ==
    /\ pc = "metadata"
    /\ Call(update_metdata(ast_obj), "returned")

NextMeta == RunMetadata

SpecMeta == InitMeta /\ [][NextMeta]_vars

\* C3: with exactly one ANSIBLE_METADATA assignment, whatever its value
\* was, its value after update_metdata is the mapping metadata_version ->
\* "1.1", supported_by -> "Ansible", in that order; with none or several,
\* the tree is left as it was.
MetadataNormalized ==
    pc = "returned" =>
        LET located == find_assigment_in_ast(S_ANSIBLE_METADATA, hist[1])
        IN  IF Len(located) = 1
            THEN /\ ast_obj[located[1]].value.node = "Dict"
                 /\ ast_obj[located[1]].value.keys =
                        <<S_metadata_version, S_supported_by>>
                 /\ ast_obj[located[1]].value.values = <<S_1_1, S_Ansible>>
            ELSE ast_obj = hist[1]

MetadataOverwritten ==
    /\ pc = "returned"
    /\ Len(find_assigment_in_ast(S_ANSIBLE_METADATA, hist[1])) = 1
    /\ \E i \in 1..Len(ast_obj) :
           /\ hist[1][i].value # META
           /\ ast_obj[i].value = META

----------------------------------------------------------------------------
(* update_documentation on its own *)

S_options == <<"o","p","t","i","o","n","s">>
S_name == <<"n","a","m","e">>
S_notes == <<"n","o","t","e","s">>
S_2_9 == <<"2",".","9">>
S_foo == <<"f","o","o">>
S_text == <<"t","e","x","t">>

\* A top-level entry with the deeper lines below it
Block(key, val, sub) == [key |-> key, val |-> val, sub |-> sub]

DocBlocks ==
    { Block(S_module, S_foo, <<>>),
      Block(S_description, S_text, <<>>),
      Block(S_notes, S_text, <<>>),
      Block(S_version_added, S_2_9, <<>>),
      Block(S_options, <<>>,
            <<Entry(2, FALSE, S_name, <<>>),
              Entry(4, FALSE, S_description, S_text),
              Entry(4, FALSE, S_version_added, S_2_9)>>),
      \* a nested version_added whose value is on the lines below it
      Block(S_options, <<>>,
            <<Entry(2, FALSE, S_name, <<>>),
              Entry(4, FALSE, S_version_added, <<>>),
              Entry(6, FALSE, S_foo, S_2_9)>>),
      Block(S_notes, S_unclosed, <<>>) }

DocTexts ==
    { dump_lines(d) : d \in SeqsUpTo(DocBlocks, MaxDocKeys) }

DocTrees ==
    { <<Assign(S_DOCUMENTATION, Constant(t, nl))>> :
          t \in DocTexts, nl \in BOOLEAN }
    \cup { <<Other, Assign(S_DOCUMENTATION, Constant(t, TRUE)),
             Assign(S_DOCUMENTATION, Constant(t, TRUE))>> :
             t \in { dump_lines(d) : d \in SeqsUpTo(DocBlocks, 1) } }
    \cup { <<>>, <<Other>>, <<Assign(S_RETURN, Constant(<<>>, FALSE))>> }

InitDoc ==
    /\ pc = "documentation"
    /\ ast_obj \in DocTrees
    /\ hist = <<ast_obj>>
    /\ module_name = <<>> /\ collection = <<>>
    /\ Idle

RunDocumentation ==
    /\ pc = "documentation"
    /\ Call(update_documentation(ast_obj), "returned")

NextDoc == RunDocumentation

SpecDoc == InitDoc /\ [][NextDoc]_vars

\* the DOCUMENTATION text before and after the pass, when exactly one
\* DOCUMENTATION assignment is located
DocBefore ==
    hist[1][find_assigment_in_ast(S_DOCUMENTATION, hist[1])[1]].value.lines
DocAfter ==
    ast_obj[find_assigment_in_ast(S_DOCUMENTATION, hist[1])[1]].value.lines

HadDescription ==
    /\ Len(find_assigment_in_ast(S_DOCUMENTATION, hist[1])) = 1
    /\ LoadsMap(DocBefore)
    /\ HasKey(load(DocBefore), S_description)

OthersOf(doc) ==
    LET keep == SelectIdx([k \in 1..Len(doc) |-> doc[k].key # S_version_added])
    IN  [k \in 1..Len(keep) |-> doc[keep[k]].key]

\* One top-level version_added, "1.0.0", right after description, the
\* other top-level keys in their old order.
VersionAddedPlaced ==
    (pc = "returned" /\ HadDescription) =>
        LET out == load(DocAfter)
        IN  /\ LoadsMap(DocAfter)
            /\ Cardinality({k \in 1..Len(out) :
                                out[k].key = S_version_added}) = 1
            /\ \E k \in 1..(Len(out) - 1) :
                   /\ out[k].key = S_description
                   /\ out[k + 1].key = S_version_added
                   /\ out[k + 1].val = S_1_0_0
                   /\ out[k + 1].sub = <<>>
            /\ OthersOf(out) = OthersOf(load(DocBefore))

NoNestedVersionAdded ==
    (pc = "returned" /\ HadDescription) =>
        \A i \in 1..Len(DocAfter) :
            ~(DocAfter[i].ind > 0 /\ DocAfter[i].key = S_version_added)

\* C4: for a DOCUMENTATION document with a top-level description key,
\* after update_documentation there is exactly one top-level version_added,
\* its value is "1.0.0", it follows description immediately, the other
\* top-level keys keep their order, and no indented version_added: line is
\* left in the text.
DocumentationEdited ==
    /\ (HadDescription => pc # "raised")
    /\ VersionAddedPlaced
    /\ NoNestedVersionAdded

----------------------------------------------------------------------------
(* update_examples on its own, called twice with the same arguments *)

ExampleNames == { <<"a">>, <<"a","b">> }
ExampleCollections == { <<"a">>, <<"b">>, <<"a","b">> }
ExampleKeys ==
    { <<"n">>, <<"a">>, <<"a","b">>, <<"a",".","a">>, <<"b",".","a">> }
CommentChars == { "a", "b", "." }

CommentTexts ==
    { <<"#">> \o c : c \in SeqsUpTo(CommentChars, MaxComment) }

\* a task: one or two keys, the second with another value, and maybe a
\* deeper line under the last key
ExampleTasks ==
    { <<Entry(0, TRUE, k, <<"v">>)>> : k \in ExampleKeys }
    \cup { <<Entry(0, TRUE, k1, <<"v">>), Entry(2, FALSE, k2, <<"w">>)>> :
              k1 \in ExampleKeys, k2 \in ExampleKeys }
    \cup { <<Entry(0, TRUE, <<"n">>, <<"v">>), Entry(2, FALSE, k, <<>>),
             Entry(4, FALSE, <<"a">>, <<"v">>)>> : k \in ExampleKeys }

ExampleTexts ==
    \* a comment before the first task, or after it on either kind of node
    { c \o t : c \in {<<>>} \cup { <<Comment(0, x, "doc")>> : x \in CommentTexts },
               t \in ExampleTasks }
    \cup { t \o <<Comment(0, x, o)>> :
              t \in ExampleTasks, x \in CommentTexts, o \in {"doc", "task"} }
    \* two tasks, a comment between them and an indented one at the end
    \cup { t1 \o <<Comment(0, <<"#","a">>, o)>> \o t2
             \o <<Comment(2, <<"#","a">>, "doc")>> :
              t1 \in ExampleTasks, t2 \in ExampleTasks, o \in {"doc", "task"} }
    \* no task at all, a mapping instead of a sequence, a broken text
    \cup { <<>>, <<Comment(0, <<"#","a">>, "doc")>>,
           <<Entry(0, FALSE, <<"a">>, <<"v">>)>>,
           <<Entry(0, TRUE, <<"a">>, S_unclosed)>> }

ExampleTrees ==
    { <<Assign(S_EXAMPLES, Constant(t, nl))>> :
          t \in ExampleTexts, nl \in BOOLEAN }
    \cup { <<>>,
           <<Assign(S_EXAMPLES, Constant(<<Entry(0, TRUE, <<"a">>, <<"v">>)>>, TRUE)),
             Assign(S_EXAMPLES, Constant(<<Entry(0, TRUE, <<"a">>, <<"v">>)>>, TRUE))>> }

InitEx ==
    /\ pc = "examples"
    /\ ast_obj \in ExampleTrees
    /\ hist = <<ast_obj>>
    /\ module_name \in ExampleNames \cup {<<>>}
    /\ collection \in ExampleCollections
    /\ Idle

RunExamples ==
    /\ pc = "examples"
    /\ Call(update_examples(ast_obj, module_name, collection), "once")

RunExamplesAgain ==
    /\ pc = "once"
    /\ Call(update_examples(ast_obj, module_name, collection), "twice")

NextEx == RunExamples \/ RunExamplesAgain

SpecEx == InitEx /\ [][NextEx]_vars

\* C5: a second update_examples with the same module_name and collection
\* changes nothing: no task key and no comment line.
ExamplesIdempotent ==
    /\ pc = "twice" => hist[3] = hist[2]
    /\ ~(pc = "raised" /\ Len(hist) = 3)

\* how often old occurs in s, counted as str.replace finds it
RECURSIVE occurrences(_, _)
occurrences(s, old) ==
    IF Len(s) < Len(old) THEN 0
    ELSE IF SubSeq(s, 1, Len(old)) = old
         THEN 1 + occurrences(SubSeq(s, Len(old) + 1, Len(s)), old)
         ELSE occurrences(Tail(s), old)

\* a comment with two bare names was qualified, under a collection whose
\* name holds the module name, and a task key was renamed
ExamplesRewrittenOnce ==
    /\ pc = "twice"
    /\ module_name # <<>>
    /\ contains(collection, module_name)
    /\ Len(hist[1]) = 1 /\ Len(hist[2]) = 1
    /\ \E i \in 1..Len(hist[1][1].value.lines) :
           LET line == hist[1][1].value.lines[i]
           IN  /\ line.comment /\ line.ind = 0
               /\ occurrences(line.val, module_name) >= 2
               /\ \E j \in 1..Len(hist[2][1].value.lines) :
                      hist[2][1].value.lines[j] =
                          Comment(0, replace(line.val, module_name,
                                      collection \o <<".">> \o module_name),
                                  line.owner)
    /\ \E i \in 1..Len(hist[1][1].value.lines) :
           /\ IsTaskKey(hist[1][1].value.lines[i])
           /\ hist[1][1].value.lines[i].key = module_name
    /\ \A j \in 1..Len(hist[2][1].value.lines) :
           \/ hist[2][1].value.lines[j].key # module_name
           \/ hist[2][1].value.lines[j].ind > 2

----------------------------------------------------------------------------
(* update_short_description on its own, called twice *)

S_ios == <<"i","o","s">>
S_interfaces == <<"i","n","t","e","r","f","a","c","e","s">>
S_ios_interfaces == S_ios \o <<"_">> \o S_interfaces

ShortNames ==
    { S_ios_interfaces,
      S_ios \o <<"_","a","c","l","s">>,
      S_ios \o <<"_","A","C","L","S">>,
      S_ios \o <<"_","o","s","p","f","v","2">>,
      S_ios \o <<"_","s","t","a","t","i","c","_","r","o","u","t","e","s">>,
      S_ios \o <<"_","b","g","p","_">> \o S_global,
      S_ios \o <<"_","l","2","_">> \o S_interfaces \o <<"_","x">>,
      S_ios \o <<"_">>,
      S_ios }

S_Foo_module == <<"F","o","o"," ","m","o","d","u","l","e">>
S_Interfaces_resource_module ==
    <<"I","n","t","e","r","f","a","c","e","s">> \o S_resource_module

ShortDescriptions ==
    { S_Foo_module,
      S_deprecated_prefix \o <<" ">> \o S_Foo_module,
      S_deprecated_prefix \o <<"F","o","o">>,
      <<>>,
      S_Interfaces_resource_module,
      S_deprecated_prefix \o <<" ">> \o S_Interfaces_resource_module }

DeprecatedBlock ==
    Block(S_deprecated, <<>>, <<Entry(2, FALSE, <<"w","h","y">>, S_text)>>)

ShortDocs ==
    { <<Block(S_module, S_foo, <<>>), Block(S_short_description, d, <<>>),
        Block(S_description, S_text, <<>>)>> \o x :
          d \in ShortDescriptions, x \in {<<>>, <<DeprecatedBlock>>} }
    \cup { <<Block(S_module, S_foo, <<>>)>> \o x :
              x \in {<<>>, <<DeprecatedBlock>>} }
    \cup { <<Block(S_short_description, S_unclosed, <<>>)>> }

ReturnDocs ==
    { <<Block(S_after, <<>>, <<>>), Block(S_before, <<>>, <<>>),
        Block(S_commands, <<>>, <<>>)>>,
      <<Block(S_commands, <<>>, <<Entry(2, FALSE, S_description, S_text)>>),
        Block(S_foo, S_text, <<>>), Block(S_after, <<>>, <<>>),
        Block(S_before, <<>>, <<>>)>>,
      <<Block(S_after, <<>>, <<>>), Block(S_before, <<>>, <<>>)>>,
      <<Block(S_foo, <<>>, <<Entry(2, FALSE, S_commands, S_text)>>),
        Block(S_after, <<>>, <<>>), Block(S_before, <<>>, <<>>)>>,
      <<Block(S_foo, S_unclosed, <<>>)>> }

ReturnTexts ==
    { dump_lines(r) : r \in ReturnDocs }
    \cup { <<Comment(0, <<"#">>, "doc")>>,
           <<Entry(0, TRUE, S_after, S_text)>> }

ShortTrees ==
    { <<Assign(S_DOCUMENTATION, Constant(dump_lines(d), nl)),
        Assign(S_RETURN, Constant(r, TRUE))>> :
          d \in ShortDocs, nl \in BOOLEAN, r \in ReturnTexts }
    \cup { <<Assign(S_DOCUMENTATION, Constant(dump_lines(d), TRUE))>> \o x :
              d \in ShortDocs,
              x \in { <<>> } \cup
                    { <<Assign(S_RETURN, Constant(dump_lines(r), TRUE)),
                        Other,
                        Assign(S_RETURN, Constant(dump_lines(r), TRUE))>> :
                            r \in ReturnDocs } }
    \cup { x \o <<Assign(S_RETURN, Constant(r, TRUE))>> \o x :
              r \in ReturnTexts,
              x \in { <<>> } \cup
                    { <<Assign(S_DOCUMENTATION, Constant(dump_lines(d), TRUE))>> :
                          d \in ShortDocs } }

InitShort ==
    /\ pc = "short_description"
    /\ ast_obj \in ShortTrees
    /\ hist = <<ast_obj>>
    /\ module_name \in ShortNames
    /\ collection = <<>>
    /\ Idle

RunShortDescription ==
    /\ pc = "short_description"
    /\ Call(update_short_description(ast_obj, module_name), "once")

RunShortDescriptionAgain ==
    /\ pc = "once"
    /\ Call(update_short_description(ast_obj, module_name), "twice")

NextShort == RunShortDescription \/ RunShortDescriptionAgain

SpecShort == InitShort /\ [][NextShort]_vars

\* What a tree holds for the pass
Located(tree) ==
    /\ Len(find_assigment_in_ast(S_RETURN, tree)) = 1
    /\ Len(find_assigment_in_ast(S_DOCUMENTATION, tree)) = 1
DocTextOf(tree) ==
    tree[find_assigment_in_ast(S_DOCUMENTATION, tree)[1]].value.lines
ReturnTextOf(tree) ==
    tree[find_assigment_in_ast(S_RETURN, tree)[1]].value.lines
Readable(tree) ==
    /\ Located(tree)
    /\ LoadsMap(DocTextOf(tree)) /\ LoadsMap(ReturnTextOf(tree))
    /\ HasKey(load(DocTextOf(tree)), S_short_description)
ShortOf(tree) == Get(load(DocTextOf(tree)), S_short_description)
AllThree(tree) ==
    \A k \in {S_after, S_before, S_commands} :
        HasKey(load(ReturnTextOf(tree)), k)
Deprecated(tree) == HasKey(load(DocTextOf(tree)), S_deprecated)
Parts == split(module_name, "_")
Called == Len(hist) >= 2

S_Interface_resource_module ==
    <<"I","n","t","e","r","f","a","c","e">> \o S_resource_module

IosInterfacesCase ==
    /\ Called
    /\ module_name = S_ios_interfaces
    /\ Readable(hist[1]) /\ AllThree(hist[1]) /\ ~Deprecated(hist[1])

\* C6 as stated: for ios_interfaces with RETURN keys after, before and
\* commands and no deprecated key, the short description becomes
\* "Interface resource module".
IosInterfacesSingular ==
    IosInterfacesCase => ShortOf(hist[2]) = S_Interface_resource_module

\* C6 as amended: in that case the short description becomes
\* "Interfaces resource module": the final "s" is lower-cased, not removed.
IosInterfacesPlural ==
    IosInterfacesCase =>
        /\ pc # "raised"
        /\ ShortOf(hist[2]) =
               <<"I","n","t","e","r","f","a","c","e","s"," ",
                 "r","e","s","o","u","r","c","e"," ","m","o","d","u","l","e">>

IosInterfacesDerived ==
    /\ IosInterfacesCase
    /\ pc = "once"
    /\ ShortOf(hist[1]) = S_Foo_module
    /\ ShortOf(hist[2]) = S_Interfaces_resource_module

\* The derivation rule in the words of the claims: the token of the second
\* component, the treatment of its last character, the third component.
RuleToken == 
    LET token == lower(Parts[2])
    IN  IF InSpecials(token) THEN Special(token) ELSE upper(token)
LastLoweredIf(r, Ends(_)) ==
    IF Ends(r[Len(r)])
    THEN SubSeq(r, 1, Len(r) - 1) \o <<char_lower(r[Len(r)])>>
    ELSE r
RuleThird(r) ==
    IF Len(Parts) > 2 /\ Parts[3] # S_global
    THEN r \o <<" ">> \o Parts[3] ELSE r
WithOrWithoutPrefix(d) == {d, S_deprecated_prefix \o <<" ">> \o d}

DerivationCase ==
    /\ Called /\ Readable(hist[1])
    /\ Len(Parts) >= 2 /\ Parts[2] # <<>>

\* C8 as stated: with all three RETURN keys the short description is
\* derived as "{resource} resource module", the final character of the
\* resource being lower-cased only if it is a lower-case "s"; with a key
\* missing it is not derived from the module name.
DerivationLowerS ==
    DerivationCase =>
        IF AllThree(hist[1])
        THEN ShortOf(hist[2]) \in WithOrWithoutPrefix(
                 RuleThird(LastLoweredIf(RuleToken, LAMBDA c : c = "s"))
                 \o S_resource_module)
        ELSE ShortOf(hist[2]) \in WithOrWithoutPrefix(ShortOf(hist[1]))

\* C8 as amended: the final character of the resource is lower-cased if it
\* is an "s" of either case ("ACLS" gives "ACLs"); a module name whose
\* second component is empty makes the pass raise.
DerivationAnyS ==
    /\ DerivationCase =>
        IF AllThree(hist[1])
        THEN /\ pc # "raised"
             /\ ShortOf(hist[2]) \in WithOrWithoutPrefix(
                    RuleThird(LastLoweredIf(RuleToken,
                                  LAMBDA c : c \in {"s", "S"}))
                    \o S_resource_module)
        ELSE ShortOf(hist[2]) \in WithOrWithoutPrefix(ShortOf(hist[1]))
    /\ (/\ Called /\ Readable(hist[1]) /\ AllThree(hist[1])
        /\ Len(Parts) >= 2 /\ Parts[2] = <<>>)
           => (pc = "raised" /\ hist[2] = hist[1])

DerivedUpperCased ==
    /\ DerivationCase /\ AllThree(hist[1]) /\ pc = "once"
    /\ module_name = S_ios \o <<"_","A","C","L","S">>
    /\ ShortOf(hist[2]) = <<"A","C","L","s">> \o S_resource_module
    /\ ShortOf(hist[1]) = S_Foo_module

\* The short description before the deprecation step
Derived ==
    IF AllThree(hist[1])
    THEN RuleThird(LastLoweredIf(RuleToken, LAMBDA c : c \in {"s", "S"}))
         \o S_resource_module
    ELSE ShortOf(hist[1])

PrefixCase ==
    /\ Called /\ Readable(hist[1])
    /\ AllThree(hist[1]) => (Len(Parts) >= 2 /\ Parts[2] # <<>>)

\* C7 as stated: a deprecated module whose short description does not
\* start with "(deprecated) ", the space included, gets that prefix; a
\* module that is not deprecated gets none; a second run leaves the short
\* description as the first left it.
PrefixWithSpace ==
    PrefixCase =>
        /\ (Deprecated(hist[1])
             /\ ~startswith(Derived, S_deprecated_prefix \o <<" ">>))
               => ShortOf(hist[2]) = S_deprecated_prefix \o <<" ">> \o Derived
        /\ ~Deprecated(hist[1]) => ShortOf(hist[2]) = Derived
        /\ Len(hist) = 3 => ShortOf(hist[3]) = ShortOf(hist[2])

\* C7 as amended: the prefix looked for is "(deprecated)" without the
\* space: a deprecated module whose short description does not start with
\* it gets "(deprecated) " prepended, one that starts with it is left
\* alone, and a null short description of a deprecated module that is not
\* a resource module makes the pass raise; a module that is not deprecated
\* gets no prefix; a second run changes nothing.
PrefixWithoutSpace ==
    PrefixCase =>
        /\ IF Deprecated(hist[1])
           THEN IF Derived = <<>>
                THEN pc = "raised" /\ hist[2] = hist[1]
                ELSE IF startswith(Derived, S_deprecated_prefix)
                THEN ShortOf(hist[2]) = Derived
                ELSE ShortOf(hist[2]) =
                         S_deprecated_prefix \o <<" ">> \o Derived
           ELSE ShortOf(hist[2]) = Derived
        /\ Len(hist) = 3 =>
               /\ pc = "twice"
               /\ ShortOf(hist[3]) = ShortOf(hist[2])

FooModuleDeprecated ==
    /\ PrefixCase /\ pc = "twice"
    /\ Deprecated(hist[1]) /\ ~AllThree(hist[1])
    /\ ShortOf(hist[1]) = S_Foo_module
    /\ ShortOf(hist[3]) =
           <<"(","d","e","p","r","e","c","a","t","e","d",")"," ">>
           \o S_Foo_module

\* C9: update_short_description never changes the value of a RETURN
\* assignment; it changes the value of DOCUMENTATION only when RETURN and
\* DOCUMENTATION are each located once and the short description it
\* arrives at differs from the one it found; in every other case both
\* values stay as they were.
ShortDescriptionFrame ==
    \A k \in 1..(Len(hist) - 1) :
        LET before == hist[k]
            after == hist[k + 1]
            mine(i) == before[i].targets
                       /\ before[i].id \in {S_RETURN, S_DOCUMENTATION}
        IN  /\ Len(after) = Len(before)
            /\ \A i \in 1..Len(before) :
                   (before[i].targets /\ before[i].id = S_RETURN)
                       => after[i] = before[i]
            /\ (\E i \in 1..Len(before) : mine(i) /\ after[i] # before[i])
                   => /\ Located(before)
                      /\ ShortOf(after) # ShortOf(before)
            /\ ~Located(before)
                   => \A i \in 1..Len(before) :
                          mine(i) => after[i] = before[i]

DocumentationRewritten ==
    /\ pc = "once"
    /\ Located(hist[1])
    /\ ShortOf(hist[2]) # ShortOf(hist[1])
    /\ DocTextOf(hist[2]) # DocTextOf(hist[1])
    /\ ReturnTextOf(hist[2]) = ReturnTextOf(hist[1])

----------------------------------------------------------------------------
(* process: the batch over the files of plugins/modules and plugins/action *)

SUBDIRS == <<"modules", "action">>

\* What the model keeps of a file: its directory, whether its name ends in
\* ".py", how many license headers its text starts with, its statements,
\* and whether black has formatted it.
File(subdir, py, body) ==
    [subdir |-> subdir, py |-> py, header |-> 0, body |-> body,
     black |-> FALSE]

\* astor.code_to_ast.parse_file: the statements; comments are not kept
load_py_as_ast(file) == file.body

\* LICENSE + astor.to_source(ast_obj), written over the file
written(file, body) ==
    [file EXCEPT !.header = 1, !.body = body, !.black = FALSE]

\* a slip: the first of several DOCUMENTATION assignments is used
retrieve_module_name_first(body) ==
    LET bodypart == find_assigment_in_ast(S_DOCUMENTATION, body)
        text == body[bodypart[1]].value.lines
    IN  IF Len(bodypart) = 0 THEN [raised |-> FALSE, name |-> <<>>]
        ELSE IF ~LoadsMap(text) \/ ~HasKey(load(text), S_module)
             THEN [raised |-> TRUE, name |-> <<>>]
        ELSE [raised |-> FALSE, name |-> Get(load(text), S_module)]

retrieve_module_name(body) ==
    LET bodypart == find_assigment_in_ast(S_DOCUMENTATION, body)
        text == body[bodypart[1]].value.lines
    IN  IF Len(bodypart) # 1 THEN [raised |-> FALSE, name |-> <<>>]
        ELSE IF ~LoadsMap(text) \/ ~HasKey(load(text), S_module)
             THEN [raised |-> TRUE, name |-> <<>>]
        ELSE [raised |-> FALSE, name |-> Get(load(text), S_module)]

filename == listing[idx]

Log(op) == Append(events, [op |-> op, file |-> filename, passes |-> passes])

\* for filename in os.listdir(dirpath): a name that does not end in ".py"
NotPython ==
    /\ pc = "listdir" /\ idx <= Len(listing)
    /\ ~disk[filename].py
    /\ idx' = idx + 1
    /\ UNCHANGED <<pc, ast_obj, module_name, collection, hist, disk, orig,
                   listing, passes, events>>

\* lines 236-240
LoadFile ==
    /\ pc = "listdir" /\ idx <= Len(listing)
    /\ disk[filename].py
    /\ ast_obj' = load_py_as_ast(disk[filename])
    /\ hist' = <<ast_obj'>>
    /\ passes' = {}
    /\ events' = Log("load")
    /\ pc' = "retrieve_module_name"
    /\ UNCHANGED <<module_name, collection, disk, orig, listing, idx>>

\* an exception leaves process and main
Abort ==
    /\ pc' = "aborted"
    /\ events' = Log("raise")
    /\ UNCHANGED <<ast_obj, module_name, collection, hist, disk, orig,
                   listing, idx, passes>>

\* lines 243-248
RetrieveModuleName ==
    /\ pc = "retrieve_module_name"
    /\ LET found == retrieve_module_name(ast_obj)
       IN  IF found.raised THEN Abort
           ELSE IF found.name = <<>>
           THEN /\ pc' = "listdir"
                /\ idx' = idx + 1
                /\ events' = Log("skip")
                /\ UNCHANGED <<ast_obj, module_name, collection, hist,
                               disk, orig, listing, passes>>
           ELSE /\ module_name' = found.name
                /\ passes' = passes \cup {"retrieve_module_name"}
                /\ pc' = "update_metdata"
                /\ UNCHANGED <<ast_obj, collection, hist, disk, orig,
                               listing, idx, events>>

Pass(name, result, then) ==
    /\ pc = name
    /\ IF result.raised THEN Abort
       ELSE /\ ast_obj' = result.body
            /\ hist' = Append(hist, result.body)
            /\ passes' = passes \cup {name}
            /\ pc' = then
            /\ UNCHANGED <<module_name, collection, disk, orig, listing,
                           idx, events>>

\* lines 251-256
UpdateMetadata ==
    Pass("update_metdata", update_metdata(ast_obj), "update_documentation")

\* lines 259-264
UpdateDocumentation ==
    Pass("update_documentation", update_documentation(ast_obj),
         "update_short_description")

\* a slip: the file is written before the examples are updated
UpdateShortDescriptionThenWrite ==
    Pass("update_short_description",
         update_short_description(ast_obj, module_name), "write")

\* lines 267-273
UpdateShortDescription ==
    Pass("update_short_description",
         update_short_description(ast_obj, module_name), "update_examples")

\* lines 276-281
UpdateExamples ==
    Pass("update_examples",
         update_examples(ast_obj, module_name, collection), "write")

\* lines 284-287
WriteFile ==
    /\ pc = "write"
    /\ disk' = [f \in DOMAIN disk |->
                   IF f = filename THEN written(disk[f], ast_obj)
                   ELSE disk[f]]
    /\ events' = Log("write")
    /\ pc' = "black"
    /\ UNCHANGED <<ast_obj, module_name, collection, hist, orig, listing,
                   idx, passes>>

\* line 288, black exits with 0
black ==
    /\ pc = "black"
    /\ disk' = [f \in DOMAIN disk |->
                   IF f = filename THEN [disk[f] EXCEPT !.black = TRUE]
                   ELSE disk[f]]
    /\ events' = Log("black")
    /\ idx' = idx + 1
    /\ pc' = "listdir"
    /\ UNCHANGED <<ast_obj, module_name, collection, hist, orig, listing,
                   passes>>

\* line 288, black exits with another status: check_output raises
BlackFails ==
    /\ pc = "black"
    /\ pc' = "aborted"
    /\ events' = Log("black failed")
    /\ UNCHANGED <<ast_obj, module_name, collection, hist, disk, orig,
                   listing, idx, passes>>

\* both directories are listed to their end
Finish ==
    /\ pc = "listdir" /\ idx > Len(listing)
    /\ pc' = "done"
    /\ UNCHANGED <<ast_obj, module_name, collection, hist, disk, orig,
                   listing, idx, passes, events>>

(* The files of a batch *)

S_net == <<"n","e","t">>

OldMeta ==
    Dict(<<S_metadata_version, S_status, S_supported_by>>,
         <<S_1_1, S_preview, <<"n","e","t","w","o","r","k">> >>)

DocOf(blocks) == Constant(dump_lines(blocks), TRUE)

B_module == Block(S_module, S_ios_interfaces, <<>>)
B_short == Block(S_short_description, S_Foo_module, <<>>)
B_description == Block(S_description, S_text, <<>>)
B_options ==
    Block(S_options, <<>>,
          <<Entry(2, FALSE, S_name, <<>>),
            Entry(4, FALSE, S_description, S_text),
            Entry(4, FALSE, S_version_added, S_2_9)>>)

GoodDoc ==
    DocOf(<<B_module, B_short, Block(S_version_added, S_2_9, <<>>),
            B_description, B_options>>)
DeprecatedDoc == DocOf(<<B_module, B_short, B_description, DeprecatedBlock>>)
GoodReturn ==
    DocOf(<<Block(S_after, <<>>, <<>>), Block(S_before, <<>>, <<>>),
            Block(S_commands, <<>>, <<>>)>>)
PlainReturn == DocOf(<<Block(S_foo, S_text, <<>>)>>)
GoodExamples ==
    Constant(<<Comment(0, <<"#", " ">> \o S_ios_interfaces, "doc"),
               Entry(0, TRUE, S_name, S_text),
               Entry(2, FALSE, S_ios_interfaces, <<>>),
               Entry(4, FALSE, S_name, S_foo),
               Comment(0, <<"#">> \o S_ios_interfaces, "task"),
               Entry(0, TRUE, S_ios_interfaces, S_foo)>>, TRUE)

\* a file body with the given values for the four names, in source order
Body(metas, docs, examples, returns) ==
    <<Other>>
    \o [i \in 1..Len(metas) |-> Assign(S_ANSIBLE_METADATA, metas[i])]
    \o [i \in 1..Len(docs) |-> Assign(S_DOCUMENTATION, docs[i])]
    \o [i \in 1..Len(examples) |-> Assign(S_EXAMPLES, examples[i])]
    \o [i \in 1..Len(returns) |-> Assign(S_RETURN, returns[i])]

GoodBody == Body(<<OldMeta>>, <<GoodDoc>>, <<GoodExamples>>, <<GoodReturn>>)

Bodies ==
    { GoodBody,
      Body(<<OldMeta>>, <<DeprecatedDoc>>, <<GoodExamples>>, <<PlainReturn>>),
      \* a name that is missing or assigned twice
      Body(<<>>, <<GoodDoc>>, <<GoodExamples>>, <<GoodReturn>>),
      Body(<<OldMeta, META>>, <<GoodDoc>>, <<GoodExamples>>, <<GoodReturn>>),
      Body(<<OldMeta>>, <<>>, <<GoodExamples>>, <<GoodReturn>>),
      Body(<<OldMeta>>, <<GoodDoc, DeprecatedDoc>>, <<GoodExamples>>,
           <<GoodReturn>>),
      Body(<<OldMeta>>, <<GoodDoc>>, <<>>, <<GoodReturn>>),
      Body(<<OldMeta>>, <<GoodDoc>>, <<GoodExamples, GoodExamples>>,
           <<GoodReturn>>),
      Body(<<OldMeta>>, <<GoodDoc>>, <<GoodExamples>>, <<>>),
      Body(<<OldMeta>>, <<DeprecatedDoc>>, <<GoodExamples>>,
           <<GoodReturn, PlainReturn>>),
      \* a text that does not load, a key that is missing
      Body(<<OldMeta>>, <<DocOf(<<B_module, Block(S_notes, S_unclosed, <<>>)>>)>>,
           <<GoodExamples>>, <<GoodReturn>>),
      Body(<<OldMeta>>, <<DocOf(<<B_module, B_short>>)>>,
           <<GoodExamples>>, <<GoodReturn>>),
      Body(<<OldMeta>>, <<DocOf(<<B_module, B_description>>)>>,
           <<GoodExamples>>, <<GoodReturn>>),
      Body(<<OldMeta>>, <<DocOf(<<B_short, B_description>>)>>,
           <<GoodExamples>>, <<GoodReturn>>),
      Body(<<OldMeta>>,
           <<DocOf(<<Block(S_module, <<>>, <<>>), B_short, B_description>>)>>,
           <<GoodExamples>>, <<GoodReturn>>),
      Body(<<OldMeta>>, <<GoodDoc>>,
           <<Constant(<<Entry(0, TRUE, S_name, S_unclosed)>>, TRUE)>>,
           <<GoodReturn>>),
      Body(<<OldMeta>>, <<GoodDoc>>, <<GoodExamples>>,
           <<Constant(<<Comment(0, <<"#">>, "doc")>>, TRUE)>>) }

Files ==
    { File("modules", TRUE, b) : b \in Bodies }
    \cup { File("action", TRUE, GoodBody), File("modules", FALSE, GoodBody) }

\* os.listdir gives the names of a directory in any order; the directories
\* are visited in the order of SUBDIRS
Listings(files) ==
    { l \in [DOMAIN files -> DOMAIN files] :
        /\ \A i, j \in DOMAIN files : l[i] = l[j] => i = j
        /\ \A i, j \in DOMAIN files :
               (files[l[i]].subdir = SUBDIRS[1]
                /\ files[l[j]].subdir = SUBDIRS[2]) => i < j }

Init ==
    /\ \E n \in 1..MaxFiles : disk \in [1..n -> Files]
    /\ orig = disk
    /\ listing \in Listings(disk)
    /\ idx = 1
    /\ pc = "listdir"
    /\ collection = S_net
    /\ module_name = <<>>
    /\ ast_obj = <<>>
    /\ hist = <<>>
    /\ passes = {}
    /\ events = <<>>

Next ==
    \/ NotPython
    \/ LoadFile
    \/ RetrieveModuleName
    \/ UpdateMetadata
    \/ UpdateDocumentation
    \/ UpdateShortDescription
    \/ UpdateExamples
    \/ WriteFile
    \/ black
    \/ BlackFails
    \/ Finish

Spec == Init /\ [][Next]_vars

----------------------------------------------------------------------------
(* Properties of the batch *)

AllPasses ==
    {"retrieve_module_name", "update_metdata", "update_documentation",
     "update_short_description", "update_examples"}

Count(name, body) == Len(find_assigment_in_ast(name, body))
Pos(f) == CHOOSE i \in 1..Len(listing) : listing[i] = f
Happened(op, f) == \E i \in 1..Len(events) :
                       events[i].op = op /\ events[i].file = f
FullyWritten(f) ==
    /\ \E i \in 1..Len(events) :
           events[i] = [op |-> "write", file |-> f, passes |-> AllPasses]
    /\ disk[f].header = 1
Ended == pc \in {"done", "aborted"}
\* the loop has left file f behind without an exception
Passed(f) == Pos(f) < idx \/ pc = "done"

TextOf(name, body) ==
    body[find_assigment_in_ast(name, body)[1]].value.lines

WellFormed(file) ==
    /\ file.py
    /\ \A name \in {S_ANSIBLE_METADATA, S_DOCUMENTATION, S_EXAMPLES, S_RETURN} :
           Count(name, file.body) = 1
    /\ LoadsMap(TextOf(S_DOCUMENTATION, file.body))
    /\ \A key \in {S_module, S_short_description, S_description} :
           /\ HasKey(load(TextOf(S_DOCUMENTATION, file.body)), key)
           /\ Get(load(TextOf(S_DOCUMENTATION, file.body)), key) # <<>>
    /\ LoadsMap(TextOf(S_RETURN, file.body))
    /\ LoadsSeq(TextOf(S_EXAMPLES, file.body))

Malformed(file) ==
    /\ file.py
    /\ \A name \in {S_ANSIBLE_METADATA, S_DOCUMENTATION, S_EXAMPLES, S_RETURN} :
           Count(name, file.body) = 1
    /\ \/ \E name \in {S_DOCUMENTATION, S_EXAMPLES, S_RETURN} :
              ~Loads(TextOf(name, file.body))
       \/ /\ LoadsMap(TextOf(S_DOCUMENTATION, file.body))
          /\ \E key \in {S_short_description, S_description} :
                 ~HasKey(load(TextOf(S_DOCUMENTATION, file.body)), key)

FormatterWorked ==
    \A i \in 1..Len(events) : events[i].op # "black failed"

\* C1: when a directory holds one well-formed and one malformed file, the
\* well-formed file has been put through all four passes and written when
\* the batch ends, in whichever order the directory lists the two.
BatchContinues ==
    (Ended /\ FormatterWorked /\ DOMAIN disk = {1, 2}) =>
        \A f, g \in DOMAIN disk :
            (/\ WellFormed(orig[f]) /\ Malformed(orig[g])
             /\ orig[f].subdir = orig[g].subdir) => FullyWritten(f)

RequiredNames == {S_DOCUMENTATION, S_ANSIBLE_METADATA, S_EXAMPLES, S_RETURN}

Undisturbed(f) ==
    /\ ~Happened("raise", f) /\ ~Happened("black failed", f)
    /\ Passed(f)

Kept(name, f) ==
    \A i \in 1..Len(orig[f].body) :
        (orig[f].body[i].targets /\ orig[f].body[i].id = name)
            => (/\ i <= Len(disk[f].body)
                /\ disk[f].body[i] = orig[f].body[i])

NoPartialWrite ==
    /\ \A i \in 1..Len(events) :
           LET e == events[i]
           IN  /\ e.op = "write" =>
                     /\ e.passes = AllPasses
                     /\ IF i = Len(events) THEN pc = "black"
                        ELSE /\ events[i + 1].op \in {"black", "black failed"}
                             /\ events[i + 1].file = e.file
               /\ e.op \in {"black", "black failed"} =>
                     /\ i > 1
                     /\ events[i - 1].op = "write"
                     /\ events[i - 1].file = e.file
               /\ e.op = "raise" =>
                     /\ i = Len(events) /\ pc = "aborted"
                     /\ disk[e.file] = orig[e.file]
    /\ \A f \in DOMAIN disk :
           /\ disk[f] # orig[f] => Happened("write", f)
           /\ Pos(f) > idx => disk[f] = orig[f]
           /\ Happened("write", f) =>
                  /\ disk[f].header = 1
                  /\ Pos(f) <= idx

RaisedAfterAWrite ==
    /\ pc = "aborted"
    /\ Len(listing) = 2
    /\ FullyWritten(listing[1]) /\ disk[listing[1]].black
    /\ Happened("raise", listing[2])
    /\ events[Len(events)].passes =
           {"retrieve_module_name", "update_metdata"}
    /\ disk[listing[2]] = orig[listing[2]]

====
